---- MODULE Spec2Model ----
(***************************************************************************)
(* A model of SimpleStateLibrary (src/index.js): reactive models whose     *)
(* property writes are intercepted by a Proxy, saved to sessionStorage and *)
(* pushed into the DOM elements bound to them.                             *)
(*                                                                         *)
(* JavaScript values are atoms (strings of this module): a JS string is    *)
(* itself, the other values carry a "#" tag. An instance name and a        *)
(* binding attribute are the sequences of their "."-separated segments,    *)
(* which is what the code's binding.split(".") and its "name." prefix      *)
(* selectors work on.                                                      *)
(***************************************************************************)
EXTENDS Integers, Sequences, FiniteSets, TLC

\* ------------------------------------------------------------------ bounds
\* How many models the program constructs.
MaxModels == 2
\* How many operations (constructions, assignments, events, remote calls and
\* responses) a run performs.
MaxSteps == 4

\* ------------------------------------------------------------ JS values
Undefined == "#undefined"
Null      == "#null"
True      == "#true"
False     == "#false"
\* a function value the caller assigns, () => "computed"
Fn        == "#function"
\* a method found on the prototype chain (class method of the subclass)
Method    == "#method"
\* marks "no own property of that name"
Absent    == "#absent"
\* the number 0
Zero      == "#0"
\* the exception a member access on null / undefined raises
TypeError == "#TypeError"
\* two plain objects held by a field: { version: 0, active: false, owner: null,
\* label: () => "computed", inner: { version: "1" } }
Metadata  == "#metadata"
Inner     == "#inner"
Objects   == {Metadata, Inner}
\* the BigInt 10n, which JSON.stringify refuses
BigInt    == "#bigint"
\* the exception decodeURIComponent raises on a malformed sequence such as "%"
URIError  == "#URIError"
\* A value that stands for an exception on its way out of a call.
Exceptions == {TypeError, URIError}

BoolAtom(b) == IF b THEN True ELSE False

\* typeof v === "function"
IsFunction(v) == v \in {Fn, Method}

\* !!v
Truthy(v) == v \notin {Undefined, Null, False, "", Absent, Zero}

\* String(v), what assigning v to element.value / textContent stores
ToStr(v) ==
    CASE v = True      -> "true"
      [] v = False     -> "false"
      [] v = Null      -> "null"
      [] v = Undefined -> "undefined"
      [] v = Fn        -> "() => \"computed\""
      [] v = Zero      -> "0"
      [] v = BigInt    -> "10"
      [] v \in Objects -> "[object Object]"
      [] OTHER         -> v

\* ------------------------------------------------------------- the program
\* Own property names that occur.
Keys == {"name", "email", "notifications", "__secret", "endpoint", "extra",
         "__instanceName"}

\* key.startsWith("__")
StartsWithUU(k) == k \in {"__secret", "__instanceName", "__handlers"}

\* Members defined with writable: false in the constructor.
ReadOnlyKeys == {"__instanceName", "__handlers"}

UserName     == <<"user">>
SettingsName == <<"settings">>
\* an instance name with a "." in it, "user.profile"
ProfileName  == <<"user", "profile">>
Names == {UserName, SettingsName, ProfileName}

\* The subclasses of the demo and the tests, by their declared class fields.
Classes == {"User", "Settings"}

ClassFields(cls) ==
    IF cls = "User"
    THEN [k \in {"name", "email", "__secret", "endpoint"} |->
            CASE k = "name" -> ""
              [] k = "email" -> ""
              [] k = "__secret" -> "hidden"
              [] k = "endpoint" -> "/api/user"]
    ELSE [k \in {"notifications"} |-> False]

\* Methods the subclass declares (on the prototype, not enumerable):
\*   fullName() { ... }   decoded() { return decodeURIComponent(this.name); }
ClassMethods(cls) == IF cls = "User" THEN {"fullName", "decoded"} ELSE {}

\* The constructions the application performs: name, class, and the second
\* constructor argument (new Settings("settings", false) asks for a model
\* without persistence).
Programs == {<<UserName, "User", TRUE>>, <<SettingsName, "Settings", TRUE>>,
             <<SettingsName, "Settings", FALSE>>, <<ProfileName, "Settings", TRUE>>}

NoFields == [k \in Keys |-> Absent]

\* ------------------------------------------------------------ the document
\* The elements of the page in document order: those of the test page, two
\* spans bound to the methods decoded and fullName, a span bound to a field
\* of the model named "user.profile", an input whose binding names a private
\* member, and one whose binding has a path of two segments:
\*   <span id="decodedDisplay" data-bind="user.decoded">
\*   <span id="profileDisplay" data-bind="user.profile.notifications">
\*   <input id="secretInput" data-model="user.__secret">
\*   <input id="versionInput" data-model="user.extra.version">
Document == <<"nameInput", "notifCheckbox", "display", "decodedDisplay", "fullNameDisplay",
              "profileDisplay", "secretInput", "versionInput">>

Elements == {Document[i] : i \in 1..Len(Document)}

Position(e) == CHOOSE i \in 1..Len(Document) : Document[i] = e

\* element.getAttribute("data-model"), <<>> when the attribute is absent
DataModel(e) ==
    CASE e = "nameInput"     -> <<"user", "name">>
      [] e = "notifCheckbox" -> <<"settings", "notifications">>
      [] e = "secretInput"   -> <<"user", "__secret">>
      [] e = "versionInput"  -> <<"user", "extra", "version">>
      [] OTHER               -> <<>>

\* element.getAttribute("data-bind"), <<>> when the attribute is absent
DataBind(e) ==
    CASE e = "display"         -> <<"user", "name">>
      [] e = "fullNameDisplay" -> <<"user", "fullName">>
      [] e = "decodedDisplay"  -> <<"user", "decoded">>
      [] e = "profileDisplay"  -> <<"user", "profile", "notifications">>
      [] OTHER                 -> <<>>

IsCheckbox(e) == e = "notifCheckbox"
TagName(e) ==
    IF e \in {"display", "decodedDisplay", "fullNameDisplay", "profileDisplay"}
    THEN "SPAN" ELSE "INPUT"

InitialDom ==
    [e \in Elements |->
        [value |-> "", checked |-> FALSE,
         text |-> IF TagName(e) = "SPAN" THEN "-" ELSE ""]]

\* ------------------------------------------------------------------ store
NoEntry == [kind |-> "none", data |-> NoFields]
Corrupt == [kind |-> "corrupt", data |-> NoFields]
Json(data) == [kind |-> "json", data |-> data]

\* JSON.stringify of a flat object: members that are undefined or functions
\* are left out.
JSONstringify(data) ==
    Json([k \in Keys |->
            IF data[k] = Undefined \/ IsFunction(data[k]) THEN Absent ELSE data[k]])

AliceSnapshot ==
    Json([k \in Keys |->
            CASE k = "name" -> "Alice"
              [] k = "email" -> "a@x.com"
              [] OTHER -> Absent])

VARIABLES
    models,          \* the Model objects constructed so far (raw targets)
    modelRegistry,   \* instance name -> index of the registered proxy, 0 if none
    sessionStorage,  \* instance name -> entry under "model:" + name
    dom,             \* element -> its value / checked / textContent
    boundElements,   \* the WeakSet of the elements already wired
    listeners,       \* element -> how many input (and change) handlers it carries
    readyState,      \* document.readyState when the library ran, until the load event
    initAttempt,     \* the retry counter
    initInterval,    \* the retry timer: "active" or "cleared"
    nScans,          \* scans performed at load, by the load event and by the retry timer
    resolved,        \* a call of __getPropertyValue: model, path, result
    nAccepted,       \* writes that took the propagation branch
    nSaves,          \* calls of sessionStorage.setItem
    nRenders,        \* passes of __updateDOM
    inflight,        \* the fetch requests awaiting their response
    steps,           \* operations performed so far
    last             \* the operation that led to this state

vars == <<models, modelRegistry, sessionStorage, dom, boundElements, listeners,
          readyState, initAttempt, initInterval, nScans, resolved,
          nAccepted, nSaves, nRenders, inflight, steps, last>>

\* The variables of the binding wiring and of the retry timer.
wiringVars == <<boundElements, listeners>>
timerVars == <<readyState, initAttempt, initInterval, nScans>>

\* ------------------------------------------------------- property access
\* The instance name as the string it is: its segments joined by ".".
RECURSIVE Join(_)
Join(segs) ==
    IF Len(segs) = 1 THEN segs[1] ELSE segs[1] \o "." \o Join(Tail(segs))

\* target[property]: the own property, else the prototype chain.
Get(m, k) ==
    IF k = "__instanceName" THEN Join(m.name)
    ELSE IF k \in Keys /\ m.fields[k] # Absent THEN m.fields[k]
    ELSE IF k \in ClassMethods(m.cls) THEN Method
    ELSE Undefined

\* fullName() of the demo's User class.
FullName(m) ==
    IF Truthy(Get(m, "name")) /\ Truthy(Get(m, "email"))
    THEN ToStr(Get(m, "name")) \o " (" \o ToStr(Get(m, "email")) \o ")"
    ELSE "No user info"

\* decoded() of the User class: decodeURIComponent(this.name), which throws
\* a URIError on "%".
Decoded(m) == IF Get(m, "name") = "%" THEN URIError ELSE ToStr(Get(m, "name"))

\* value[part]() for a member that is a function.
CallMember(m, k) ==
    IF Get(m, k) = Fn THEN "computed"
    ELSE IF k = "decoded" THEN Decoded(m)
    ELSE FullName(m)

\* obj[part] for the plain objects.
Member(obj, part) ==
    CASE obj = Metadata /\ part = "version" -> Zero
      [] obj = Metadata /\ part = "active"  -> False
      [] obj = Metadata /\ part = "owner"   -> Null
      [] obj = Metadata /\ part = "label"   -> Fn
      [] obj = Metadata /\ part = "inner"   -> Inner
      [] obj = Inner /\ part = "version"    -> "1"
      [] OTHER                              -> Undefined

\* Step that reads a function member without calling it.
StepWithoutCall(m, value, part) ==
    IF value = "#this" THEN Get(m, part)
    ELSE IF value \in Exceptions THEN value
    ELSE IF value \in {Null, Undefined} THEN TypeError
    ELSE IF value \in Objects THEN Member(value, part)
    ELSE Undefined

\* __getPropertyValue, one step of its loop: the value after reading `part`
\* of `value`; This stands for the model itself. A member access on null or
\* undefined throws, one on a primitive finds nothing, and an exception ends
\* the loop.
This == "#this"
Step(m, value, part) ==
    IF value = This
    THEN IF IsFunction(Get(m, part)) THEN CallMember(m, part) ELSE Get(m, part)
    ELSE IF value \in Exceptions THEN value
    ELSE IF value \in {Null, Undefined} THEN TypeError
    ELSE IF value \in Objects
    THEN IF IsFunction(Member(value, part)) THEN "computed" ELSE Member(value, part)
    ELSE Undefined

\* Walk without the test value == null at the head of the loop body.
RECURSIVE WalkWithoutNullTest(_, _, _)
WalkWithoutNullTest(m, value, parts) ==
    IF parts = <<>> THEN (IF value \in {Null, Undefined} THEN "" ELSE value)
    ELSE WalkWithoutNullTest(m, Step(m, value, Head(parts)), Tail(parts))

RECURSIVE Walk(_, _, _)
Walk(m, value, parts) ==
    IF parts = <<>> THEN (IF value \in {Null, Undefined} THEN "" ELSE value)
    ELSE IF value \in {Null, Undefined} THEN ""
    ELSE Walk(m, Step(m, value, Head(parts)), Tail(parts))

__getPropertyValue(m, propertyPath) == Walk(m, This, propertyPath)

\* ------------------------------------------------------------ render sync
\* __updateElement behind its first line: the value is put into the element
\* by the element's kind.
PutValue(e, el, value) ==
    IF IsCheckbox(e) THEN [el EXCEPT !.checked = Truthy(value)]
    ELSE IF TagName(e) \in {"INPUT", "SELECT"} THEN [el EXCEPT !.value = ToStr(value)]
    ELSE [el EXCEPT !.text = ToStr(value)]

\* An exception that leaves __getPropertyValue leaves the element as it is.
__updateElement(m, e, el, binding) ==
    LET value == __getPropertyValue(m, binding)
    IN IF value \in Exceptions THEN el ELSE PutValue(e, el, value)

\* attr ^= name + "."
HasPrefix(attr, name) ==
    Len(attr) > Len(name) /\ SubSeq(attr, 1, Len(name)) = name

\* The selector without the instance name: [data-bind], [data-model].
SelectedWhateverTheName(e, name) == DataBind(e) # <<>> \/ DataModel(e) # <<>>

Selected(e, name) == HasPrefix(DataBind(e), name) \/ HasPrefix(DataModel(e), name)

\* element.getAttribute("data-bind") || element.getAttribute("data-model")
Binding(e) == IF DataBind(e) # <<>> THEN DataBind(e) ELSE DataModel(e)

\* What __getPropertyValue gives for each selected element.
Resolutions(m) ==
    [e \in Elements |->
        IF Selected(e, m.name) THEN __getPropertyValue(m, Tail(Binding(e))) ELSE Absent]

\* The elements the forEach of a render pass gets to, given what the
\* resolver gives for each: the selected ones, in document order, up to the
\* first whose update throws.
VisitedGiven(m, values) ==
    LET throwing == {e \in Elements : values[e] \in Exceptions}
    IN {e \in Elements : /\ Selected(e, m.name)
                         /\ \A t \in throwing : Position(e) <= Position(t)}

Visited(m) == VisitedGiven(m, Resolutions(m))

\* The render pass of m throws.
RenderThrows(m) == \E e \in Elements : Resolutions(m)[e] \in Exceptions

\* The document after the render pass, given what the resolver gives.
UpdatedGiven(m, d, values) ==
    LET visited == VisitedGiven(m, values)
    IN [e \in Elements |->
          IF e \in visited /\ values[e] \notin Exceptions
          THEN PutValue(e, d[e], values[e]) ELSE d[e]]

__updateDOM(m, d) == UpdatedGiven(m, d, Resolutions(m))

\* ------------------------------------------------------------ persistence
\* PublicData without the test key !== "endpoint".
PublicDataKeepsEndpoint(m) ==
    [k \in Keys |->
        IF ~StartsWithUU(k) /\ ~IsFunction(m.fields[k])
        THEN m.fields[k] ELSE Absent]

\* The object __persist builds before it is stringified.
PublicData(m) ==
    [k \in Keys |->
        IF ~StartsWithUU(k) /\ ~IsFunction(m.fields[k]) /\ k # "endpoint"
        THEN m.fields[k] ELSE Absent]

\* JSON.stringify throws a TypeError on a BigInt.
StringifyThrows(data) == \E k \in Keys : data[k] = BigInt

\* __persist throws before it reaches setItem.
PersistThrows(m) == StringifyThrows(PublicData(m))

__persist(m, store) == [store EXCEPT ![m.name] = JSONstringify(PublicData(m))]

\* The fields of the raw object after __restore.
__restore(fields, stored) ==
    IF stored.kind = "json"
    THEN [k \in Keys |-> IF stored.data[k] # Absent THEN stored.data[k] ELSE fields[k]]
    ELSE fields

\* __restore with JSON.parse outside any try block.
RestoreReportUncaught(stored) ==
    IF stored.kind = "corrupt" THEN "throw" ELSE "ok"

\* How __restore ends: the catch block reports a snapshot that does not parse.
RestoreReport(stored) ==
    IF stored.kind = "corrupt" THEN "error" ELSE "ok"

\* ------------------------------------------------------ change interceptor
\* The effects of one synchronous call chain are threaded through a record:
\* the heap, the store, the document, the counters, the log of the steps
\* taken (the code's console.log trail), the members assigned to, in order,
\* and the elements the render passes assigned to.
Start ==
    [models |-> models, store |-> sessionStorage, dom |-> dom,
     nAccepted |-> nAccepted, nSaves |-> nSaves, nRenders |-> nRenders,
     log |-> <<>>, keys |-> <<>>, thrown |-> FALSE, touched |-> {}]

\* target[property] = value
Assign(st, id, property, value) ==
    [st EXCEPT !.models[id].fields[property] = value,
               !.log = Append(@, "assign"),
               !.keys = Append(@, property)]

\* A save whose exception is caught and dropped.
SaveSwallowsError(st, id) ==
    IF st.thrown THEN st
    ELSE IF PersistThrows(st.models[id])
    THEN [st EXCEPT !.log = Append(@, "throw")]
    ELSE [st EXCEPT !.store = __persist(st.models[id], @),
                    !.nSaves = @ + 1,
                    !.log = Append(@, "save")]

\* this.__persist(). A statement is not reached once an exception is on its
\* way out of the call chain (st.thrown).
Save(st, id) ==
    IF st.thrown THEN st
    ELSE IF PersistThrows(st.models[id])
    THEN [st EXCEPT !.log = Append(@, "throw"), !.thrown = TRUE]
    ELSE [st EXCEPT !.store = __persist(st.models[id], @),
                    !.nSaves = @ + 1,
                    !.log = Append(@, "save")]

\* this.__updateDOM()
Render(st, id) ==
    IF st.thrown THEN st
    ELSE LET m == st.models[id]
             values == Resolutions(m)
             throws == \E e \in Elements : values[e] \in Exceptions
         IN [st EXCEPT !.dom = UpdatedGiven(m, @, values),
                       !.nRenders = @ + 1,
                       !.log = IF throws THEN @ \o <<"render", "throw">>
                               ELSE Append(@, "render"),
                       !.thrown = throws,
                       !.touched = @ \cup VisitedGiven(m, values)]

\* Propagate with the render pass ahead of the save.
PropagateRenderFirst(st, id, property, value) ==
    Save(Render([Assign(st, id, property, value) EXCEPT !.nAccepted = @ + 1], id), id)

\* Propagate with the save ahead of the assignment.
PropagateSaveFirst(st, id, property, value) ==
    Render(Assign([Save(st, id) EXCEPT !.nAccepted = @ + 1], id, property, value), id)

\* The propagation branch of the set trap.
Propagate(st, id, property, value) ==
    Render(Save([Assign(st, id, property, value) EXCEPT !.nAccepted = @ + 1], id), id)

\* ProxySet without the test target[property] === value.
ProxySetWithoutEqualityTest(st, id, property, value) ==
    IF StartsWithUU(property) \/ IsFunction(value) \/ property = "endpoint"
    THEN IF property \in ReadOnlyKeys
         THEN [st EXCEPT !.log = Append(@, "TypeError"), !.thrown = TRUE]
         ELSE [Assign(st, id, property, value) EXCEPT !.log = Append(st.log, "bypass")]
    ELSE Propagate(st, id, property, value)

\* ProxySet without the test property === "endpoint".
ProxySetPropagatesEndpoint(st, id, property, value) ==
    IF StartsWithUU(property) \/ IsFunction(value)
    THEN IF property \in ReadOnlyKeys
         THEN [st EXCEPT !.log = Append(@, "TypeError"), !.thrown = TRUE]
         ELSE [Assign(st, id, property, value) EXCEPT !.log = Append(st.log, "bypass")]
    ELSE IF Get(st.models[id], property) = value
    THEN [st EXCEPT !.log = Append(@, "nochange")]
    ELSE Propagate(st, id, property, value)

\* The set trap of __createProxy. The class body is strict code, so the
\* assignment to a writable: false member throws a TypeError.
ProxySet(st, id, property, value) ==
    IF StartsWithUU(property) \/ IsFunction(value) \/ property = "endpoint"
    THEN IF property \in ReadOnlyKeys
         THEN [st EXCEPT !.log = Append(@, "TypeError"), !.thrown = TRUE]
         ELSE [Assign(st, id, property, value) EXCEPT !.log = Append(st.log, "bypass")]
    ELSE IF Get(st.models[id], property) = value
    THEN [st EXCEPT !.log = Append(@, "nochange")]
    ELSE Propagate(st, id, property, value)

\* ------------------------------------------------------------ construction
\* The class field definitions of the subclass, run after super() returned
\* the proxy: fields are defined ([[DefineOwnProperty]], which a Proxy
\* without a defineProperty trap forwards to its target), not assigned, so
\* the set trap does not run.
DefineFields(fields, cls) ==
    [k \in Keys |-> IF k \in DOMAIN ClassFields(cls) THEN ClassFields(cls)[k] ELSE fields[k]]

NoOp ==
    [op |-> "init", id |-> 0, key |-> "", val |-> "", elem |-> "",
     log |-> <<>>, keys |-> <<>>, thrown |-> FALSE, stored |-> NoEntry,
     before |-> Absent, outcome |-> "", touched |-> {}, data |-> <<>>]

\* modelRegistry.set with an entry that is kept once made.
RegisterOnce(registry, name, id) ==
    IF registry[name] # 0 THEN registry ELSE [registry EXCEPT ![name] = id]

\* modelRegistry.set(instanceName, proxy)
Register(registry, name, id) == [registry EXCEPT ![name] = id]

\* new cls(name, sessionPersist). The constructor takes one parameter; the
\* second argument is kept with the model only to state what was asked for.
\* An exception that left __restore would end the constructor there; one
\* that leaves the render pass ends it with the proxy registered and the class
\* fields not defined.
Construct(name, cls, sessionPersist) ==
    /\ Len(models) < MaxModels
    /\ steps < MaxSteps
    /\ steps' = steps + 1
    /\ LET id == Len(models) + 1
           stored == sessionStorage[name]
           raw == [name |-> name, cls |-> cls, sessionPersist |-> sessionPersist,
                   fields |-> __restore(NoFields, stored)]
           throws == RenderThrows(raw)
       IN IF RestoreReport(stored) = "throw"
          THEN /\ last' = [NoOp EXCEPT !.op = "construct", !.log = <<"restore">>,
                                       !.thrown = TRUE, !.stored = stored]
               /\ UNCHANGED <<models, modelRegistry, dom, nRenders>>
          ELSE /\ models' = Append(models, IF throws THEN raw
                                            ELSE [raw EXCEPT !.fields = DefineFields(@, cls)])
               /\ modelRegistry' = Register(modelRegistry, name, id)
               /\ dom' = __updateDOM(raw, dom)
               /\ nRenders' = nRenders + 1
               /\ last' = [NoOp EXCEPT !.op = "construct", !.id = id,
                                       !.log = (IF RestoreReport(stored) = "error"
                                                THEN <<"restore", "error">> ELSE <<"restore">>)
                                               \o (IF throws
                                                   THEN <<"register", "render", "throw">>
                                                   ELSE <<"register", "render", "define">>),
                                       !.thrown = throws,
                                       !.stored = stored,
                                       !.touched = Visited(raw)]
    /\ UNCHANGED <<sessionStorage, nAccepted, nSaves, inflight, resolved>>
    /\ UNCHANGED <<wiringVars, timerVars>>

\* ------------------------------------------------------------ application
\* Values the application assigns, per key.
WriteVals(k) ==
    CASE k = "name"            -> {"", "Alice", Fn}
      [] k = "email"           -> {"a@x.com"}
      [] k = "notifications"   -> {True, False}
      [] k = "__secret"        -> {"s3cret"}
      [] k = "endpoint"        -> {"/api/v2"}
      [] k = "__instanceName"  -> {"other"}
      [] OTHER                 -> {}

Commit(st) ==
    /\ models' = st.models
    /\ sessionStorage' = st.store
    /\ dom' = st.dom
    /\ nAccepted' = st.nAccepted
    /\ nSaves' = st.nSaves
    /\ nRenders' = st.nRenders

\* m.k = v through the facade the constructor returned.
Write(id, k, v) ==
    /\ steps < MaxSteps
    /\ steps' = steps + 1
    /\ \E st \in {ProxySet(Start, id, k, v)} :
          /\ Commit(st)
          /\ last' = [NoOp EXCEPT !.op = "set", !.id = id, !.key = k, !.val = v,
                                  !.log = st.log, !.keys = st.keys,
                                  !.thrown = st.thrown,
                                  !.touched = st.touched,
                                  !.stored = sessionStorage[models[id].name],
                                  !.before = Get(models[id], k)]
    /\ UNCHANGED <<modelRegistry, inflight, resolved>>
    /\ UNCHANGED <<wiringVars, timerVars>>

\* ------------------------------------------------------------ binding wiring
TwoWayElements == {e \in Elements : DataModel(e) # <<>>}

\* A lookup that gives the model a name was first registered with, as a
\* handler would that kept the model found when it was attached.
LookupFirst(modelName) ==
    IF \E j \in 1..Len(models) : models[j].name = modelName
    THEN CHOOSE j \in 1..Len(models) :
            /\ models[j].name = modelName
            /\ \A i \in 1..(j - 1) : models[i].name # modelName
    ELSE 0

\* modelRegistry.get(modelName)
Lookup(modelName) == IF modelName \in Names THEN modelRegistry[modelName] ELSE 0

\* A scan that takes no element for bound.
NeverBound(bound, e) == FALSE

\* boundElements.has(element)
AlreadyBound(bound, e) == e \in bound

\* A scan that passes over the elements whose model is not registered.
ToWireRegisteredOnly(bound) ==
    {e \in TwoWayElements : ~AlreadyBound(bound, e) /\ Lookup(<<Head(DataModel(e))>>) # 0}

\* The elements a scan wires: the [data-model] elements not yet bound.
ToWire(bound) == {e \in TwoWayElements : ~AlreadyBound(bound, e)}

\* The body of initializeDOMBindings: every element to wire is added to
\* boundElements and gets an input and a change handler.
WireElements ==
    /\ boundElements' = boundElements \cup ToWire(boundElements)
    /\ listeners' = [e \in Elements |->
                       IF e \in ToWire(boundElements) THEN listeners[e] + 1 ELSE listeners[e]]

\* A scan, whoever calls it and whenever.
initializeDOMBindings ==
    /\ WireElements
    /\ UNCHANGED <<models, modelRegistry, sessionStorage, dom, nAccepted, nSaves, nRenders,
                   inflight, steps, last, resolved>>
    /\ UNCHANGED timerVars

\* const maxAttempts = 20
maxAttempts == 20

\* The load event of a document that was still loading when the library ran.
DOMContentLoaded ==
    /\ readyState = "loading"
    /\ readyState' = "interactive"
    /\ WireElements
    /\ nScans' = nScans + 1
    /\ UNCHANGED <<models, modelRegistry, sessionStorage, dom, nAccepted, nSaves, nRenders,
                   inflight, steps, last, resolved, initAttempt, initInterval>>

\* The timer after a tick with no call of clearInterval.
TimerNeverCleared(attempt) == "active"

\* if (initAttempt >= maxAttempts) clearInterval(initInterval)
TimerAfterTick(attempt) == IF attempt >= maxAttempts THEN "cleared" ELSE "active"

\* One tick of the retry timer.
RetryTick ==
    /\ initInterval = "active"
    /\ initAttempt' = initAttempt + 1
    /\ WireElements
    /\ nScans' = nScans + 1
    /\ initInterval' = TimerAfterTick(initAttempt')
    /\ UNCHANGED <<models, modelRegistry, sessionStorage, dom, nAccepted, nSaves, nRenders,
                   inflight, steps, last, resolved, readyState>>

\* Handler reading e.target.value whatever the element's type.
HandlerReadsValue(st, e) ==
    LET binding == DataModel(e)
        id == Lookup(<<Head(binding)>>)
    IN IF id # 0 THEN ProxySet(st, id, Tail(binding)[1], st.dom[e].value)
       ELSE [st EXCEPT !.log = Append(@, "warn")]

\* Handler without the test if (model).
HandlerWithoutGuard(st, e) ==
    LET binding == DataModel(e)
        id == Lookup(<<Head(binding)>>)
        value == IF IsCheckbox(e) THEN BoolAtom(st.dom[e].checked) ELSE st.dom[e].value
    IN IF id # 0 THEN ProxySet(st, id, Tail(binding)[1], value)
       ELSE [st EXCEPT !.log = Append(@, "TypeError"), !.thrown = TRUE]

\* inputHandler / changeHandler (the two have the same body).
Handler(st, e) ==
    LET binding == DataModel(e)
        id == Lookup(<<Head(binding)>>)
        value == IF IsCheckbox(e) THEN BoolAtom(st.dom[e].checked) ELSE st.dom[e].value
    IN IF id # 0 THEN ProxySet(st, id, Tail(binding)[1], value)
       ELSE [st EXCEPT !.log = Append(@, "warn")]

\* The event reaches every handler attached for its type, one after another;
\* an exception that leaves one handler is reported and the next one runs.
RECURSIVE Dispatch(_, _, _)
Dispatch(st, e, n) ==
    IF n = 0 THEN st
    ELSE LET before == Dispatch(st, e, n - 1)
             after == Handler([before EXCEPT !.thrown = FALSE], e)
         IN [after EXCEPT !.thrown = before.thrown \/ after.thrown]

InputTexts == {"", "Alice"}

\* What the user can do to the element: toggle the box, type a name, type
\* some other text.
EditValues(e) ==
    IF IsCheckbox(e) THEN {BoolAtom(~dom[e].checked)}
    ELSE IF e = "nameInput" THEN InputTexts
    ELSE {"typed"}

\* What the user's edit leaves in the element before the event is dispatched.
Edited(e, v) ==
    IF IsCheckbox(e) THEN [dom EXCEPT ![e].checked = (v = True)]
    ELSE [dom EXCEPT ![e].value = v]

\* The user edits a two-way element and the browser dispatches `type`.
UserInput(e, v, type) ==
    /\ steps < MaxSteps
    /\ steps' = steps + 1
    /\ \E st \in {Dispatch([Start EXCEPT !.dom = Edited(e, v)], e, listeners[e])} :
          /\ Commit(st)
          /\ last' = [NoOp EXCEPT !.op = type, !.elem = e, !.val = v,
                                  !.id = IF listeners[e] > 0 THEN Lookup(<<Head(DataModel(e))>>) ELSE 0,
                                  !.key = Tail(DataModel(e))[1],
                                  !.before = IF listeners[e] > 0 /\ Lookup(<<Head(DataModel(e))>>) # 0
                                             THEN Get(models[Lookup(<<Head(DataModel(e))>>)],
                                                      Tail(DataModel(e))[1])
                                             ELSE Absent,
                                  !.log = st.log, !.keys = st.keys,
                                  !.thrown = st.thrown,
                                  !.touched = st.touched]
    /\ UNCHANGED <<modelRegistry, inflight, resolved>>
    /\ UNCHANGED <<wiringVars, timerVars>>

\* ------------------------------------------------------------- remote sync
\* A body taken from the store instead of the model.
PayloadOfStoredSnapshot(m) == sessionStorage[m.name]

\* The payload post() builds and stringifies.
Payload(m) == JSONstringify(PublicData(m))

\* get() / post() without the test if (!this.endpoint).
CallWithoutEndpointTest(id, method) ==
    /\ steps < MaxSteps
    /\ steps' = steps + 1
    /\ inflight' = Append(inflight,
            [id |-> id, method |-> method, url |-> Get(models[id], "endpoint"),
             body |-> IF method = "POST" THEN Payload(models[id]) ELSE NoEntry])
    /\ last' = [NoOp EXCEPT !.op = method, !.id = id, !.log = <<"fetch">>,
                            !.outcome = "pending"]
    /\ UNCHANGED <<models, modelRegistry, sessionStorage, dom, nAccepted, nSaves, nRenders,
                   resolved>>
    /\ UNCHANGED <<wiringVars, timerVars>>

\* get() / post() up to their first await. `this` is the proxy.
Call(id, method) ==
    /\ steps < MaxSteps
    /\ steps' = steps + 1
    /\ IF ~Truthy(Get(models[id], "endpoint"))
       THEN /\ inflight' = inflight
            /\ last' = [NoOp EXCEPT !.op = method, !.id = id, !.log = <<"warn">>,
                                    !.outcome = "resolved"]
       ELSE /\ inflight' = Append(inflight,
                    [id |-> id, method |-> method, url |-> Get(models[id], "endpoint"),
                     body |-> IF method = "POST" THEN Payload(models[id]) ELSE NoEntry])
            /\ last' = [NoOp EXCEPT !.op = method, !.id = id, !.log = <<"fetch">>,
                                    !.outcome = "pending"]
    /\ UNCHANGED <<models, modelRegistry, sessionStorage, dom, nAccepted, nSaves, nRenders,
                   resolved>>
    /\ UNCHANGED <<wiringVars, timerVars>>

\* The JSON objects the server answers with, as their members in key order.
Responses ==
    { << <<"name", "Alice">>, <<"email", "a@x.com">> >>,
      << <<"extra", "x">>, <<"__secret", "leak">>, <<"endpoint", "/evil">>,
         <<"notifications", True>>, <<"name", "Bob">>, <<"email", "a@x.com">> >> }

\* The populate loop without the test this.hasOwnProperty(key).
RECURSIVE PopulateEveryKey(_, _, _)
PopulateEveryKey(st, id, data) ==
    IF data = <<>> \/ st.thrown THEN st
    ELSE PopulateEveryKey(IF ~StartsWithUU(Head(data)[1])
                          THEN ProxySet(st, id, Head(data)[1], Head(data)[2]) ELSE st,
                          id, Tail(data))

\* The populate loop inside a try block of its own that drops the exception
\* of a write and goes on with the next key.
RECURSIVE PopulateKeepsGoing(_, _, _)
PopulateKeepsGoing(st, id, data) ==
    IF data = <<>> THEN st
    ELSE LET key == Head(data)[1]
             own == st.models[id].fields[key] # Absent
         IN PopulateKeepsGoing(IF ~StartsWithUU(key) /\ own
                               THEN ProxySet(st, id, key, Head(data)[2]) ELSE st,
                               id, Tail(data))

\* for (const key in data) if (!key.startsWith("__") && this.hasOwnProperty(key))
\*     this[key] = data[key];
RECURSIVE Populate(_, _, _)
Populate(st, id, data) ==
    IF data = <<>> \/ st.thrown THEN st
    ELSE LET key == Head(data)[1]
             own == st.models[id].fields[key] # Absent
         IN Populate(IF ~StartsWithUU(key) /\ own
                     THEN ProxySet(st, id, key, Head(data)[2]) ELSE st,
                     id, Tail(data))

Without(seq, i) == SubSeq(seq, 1, i - 1) \o SubSeq(seq, i + 1, Len(seq))

\* The continuation of get() / post() after a 2xx response whose body is the
\* JSON object `data`.
Respond(i, data) ==
    /\ steps < MaxSteps
    /\ steps' = steps + 1
    /\ \E st \in {Populate(Start, inflight[i].id, data)} :
          /\ Commit(st)
          /\ last' = [NoOp EXCEPT !.op = "response", !.id = inflight[i].id,
                                  !.key = inflight[i].method, !.data = data,
                                  !.log = st.log, !.keys = st.keys,
                                  !.thrown = st.thrown,
                                  !.touched = st.touched,
                                  !.outcome = IF st.thrown THEN "rejected" ELSE "resolved"]
    /\ inflight' = Without(inflight, i)
    /\ UNCHANGED <<modelRegistry, resolved>>
    /\ UNCHANGED <<wiringVars, timerVars>>

\* A catch block that issues the request once more.
FailAndRetry(i) ==
    /\ steps < MaxSteps
    /\ steps' = steps + 1
    /\ inflight' = Append(Without(inflight, i), inflight[i])
    /\ last' = [NoOp EXCEPT !.op = "failure", !.id = inflight[i].id,
                            !.key = inflight[i].method, !.log = <<"error", "fetch">>,
                            !.thrown = TRUE, !.outcome = "rejected"]
    /\ UNCHANGED <<models, modelRegistry, sessionStorage, dom, nAccepted, nSaves, nRenders,
                   resolved>>
    /\ UNCHANGED <<wiringVars, timerVars>>

\* fetch rejects, or the response is not ok: the catch block logs and rethrows.
Fail(i) ==
    /\ steps < MaxSteps
    /\ steps' = steps + 1
    /\ inflight' = Without(inflight, i)
    /\ last' = [NoOp EXCEPT !.op = "failure", !.id = inflight[i].id,
                            !.key = inflight[i].method, !.log = <<"error">>,
                            !.thrown = TRUE, !.outcome = "rejected"]
    /\ UNCHANGED <<models, modelRegistry, sessionStorage, dom, nAccepted, nSaves, nRenders,
                   resolved>>
    /\ UNCHANGED <<wiringVars, timerVars>>

\* --------------------------------------------------------- binding resolver
\* The models and the paths the resolver is studied on: a User whose field
\* `extra` holds nothing, null, 0, false, an object or a function.
ResolveModels ==
    {[name |-> UserName, cls |-> "User", sessionPersist |-> TRUE,
      fields |-> [k \in Keys |->
                    CASE k = "name" -> n
                      [] k = "email" -> "a@x.com"
                      [] k = "extra" -> x
                      [] OTHER -> Absent]] :
        n \in {"", "Alice"}, x \in {Absent, Undefined, Null, Zero, False, Metadata, Fn}}

ResolvePaths ==
    {<<"name">>, <<"extra">>, <<"fullName">>, <<"missing">>, <<"">>,
     <<"extra", "version">>, <<"extra", "active">>, <<"extra", "owner">>,
     <<"extra", "label">>, <<"extra", "inner">>, <<"extra", "missing">>,
     <<"missing", "version">>, <<"name", "version">>, <<"fullName", "version">>,
     <<"extra", "inner", "version">>, <<"extra", "owner", "version">>,
     <<"extra", "missing", "version">>, <<"extra", "version", "version">>}

Pending == "#pending"
NoCall == [m |-> <<>>, path |-> <<>>, result |-> Pending]

\* model.__getPropertyValue(path)
Resolve ==
    /\ resolved.m # <<>>
    /\ resolved.result = Pending
    /\ resolved' = [resolved EXCEPT !.result = __getPropertyValue(resolved.m, resolved.path)]
    /\ UNCHANGED <<models, modelRegistry, sessionStorage, dom, nAccepted, nSaves, nRenders,
                   inflight, steps, last>>
    /\ UNCHANGED <<wiringVars, timerVars>>

\* --------------------------------------------------------------- behaviours
\* What an earlier page of the session may have left under "model:user".
EarlierEntries == {NoEntry, AliceSnapshot, Corrupt}

\* The page before the application has run, the store holding one of
\* `entries` for the user model.
InitHeap(entries) ==
    /\ models = <<>>
    /\ modelRegistry = [n \in Names |-> 0]
    /\ sessionStorage \in {[n \in Names |-> IF n = UserName THEN x ELSE NoEntry] :
                             x \in entries}
    /\ dom = InitialDom
    /\ nAccepted = 0
    /\ nSaves = 0
    /\ nRenders = 0
    /\ inflight = <<>>
    /\ steps = 0
    /\ last = NoOp

\* The library has run: a document still loading waits for its load event, any
\* other was scanned at once (no model being registered yet); the retry timer
\* is set.
InitWiring(rs) ==
    /\ readyState = rs
    /\ boundElements = IF rs = "loading" THEN {} ELSE TwoWayElements
    /\ listeners = [e \in Elements |-> IF rs # "loading" /\ e \in TwoWayElements THEN 1 ELSE 0]
    /\ initAttempt = 0
    /\ initInterval = "active"
    /\ nScans = IF rs = "loading" THEN 0 ELSE 1

Init ==
    /\ InitHeap(EarlierEntries)
    /\ InitWiring("loading")
    /\ resolved = NoCall

Next ==
    \/ \E p \in Programs : Construct(p[1], p[2], p[3])
    \/ \E id \in 1..Len(models) :
          \E k \in DOMAIN ClassFields(models[id].cls) \cup {"__instanceName"} :
             \E v \in WriteVals(k) : Write(id, k, v)
    \/ initializeDOMBindings
    \/ \E e \in TwoWayElements, type \in {"input", "change"} :
          \E v \in EditValues(e) : UserInput(e, v, type)
    \/ \E id \in 1..Len(models), method \in {"GET", "POST"} : Call(id, method)
    \/ \E i \in 1..Len(inflight), data \in Responses : Respond(i, data)
    \/ \E i \in 1..Len(inflight) : Fail(i)

Spec == Init /\ [][Next]_vars

\* The load event and the retry timer, tick by tick, while models are
\* constructed and the user edits.
InitRetry ==
    /\ InitHeap({NoEntry})
    /\ \E rs \in {"loading", "complete"} : InitWiring(rs)
    /\ resolved = NoCall

\* The constructions of the test page.
PagePrograms == {<<UserName, "User", TRUE>>, <<SettingsName, "Settings", TRUE>>}

NextRetry ==
    \/ DOMContentLoaded
    \/ RetryTick
    \/ \E p \in PagePrograms : Construct(p[1], p[2], p[3])
    \/ \E e \in TwoWayElements, type \in {"input", "change"} :
          \E v \in EditValues(e) : UserInput(e, v, type)

SpecRetry == InitRetry /\ [][NextRetry]_vars

\* The binding resolver applied to each model and path.
InitResolve ==
    /\ InitHeap({NoEntry})
    /\ InitWiring("loading")
    /\ resolved \in {[m |-> mm, path |-> pp, result |-> Pending] :
                        mm \in ResolveModels, pp \in ResolvePaths}

NextResolve == Resolve

SpecResolve == InitResolve /\ [][NextResolve]_vars

\* Values that make a step of the pipeline throw: the name "%" makes
\* decoded(), and so the render pass, throw; a BigInt makes the save throw.
FailureVals(k) ==
    CASE k = "name"  -> {"Alice", "%", BigInt}
      [] k = "email" -> {"a@x.com"}
      [] OTHER       -> {}

FailureResponses ==
    { << <<"email", "a@x.com">>, <<"name", "%">> >>,
      << <<"name", "%">>, <<"email", "a@x.com">> >> }

\* A User model whose writes, events and responses carry such values.
InitFailure ==
    /\ InitHeap({NoEntry})
    /\ InitWiring("complete")
    /\ resolved = NoCall

NextFailure ==
    \/ Construct(UserName, "User", TRUE)
    \/ \E id \in 1..Len(models), k \in {"name", "email"} :
          \E v \in FailureVals(k) : Write(id, k, v)
    \/ \E v \in {"Alice", "%"} : UserInput("nameInput", v, "input")
    \/ \E id \in 1..Len(models), method \in {"GET", "POST"} : Call(id, method)
    \/ \E i \in 1..Len(inflight), data \in FailureResponses : Respond(i, data)

SpecFailure == InitFailure /\ [][NextFailure]_vars

\* What the user leaves in an element: either state of the check box, a
\* text in the name field (one of them makes the render pass fail), some
\* text elsewhere.
HeldValues(e) ==
    IF IsCheckbox(e) THEN {True, False}
    ELSE IF e = "nameInput" THEN {"", "Alice", "%"}
    ELSE {"typed"}

\* e.target.checked / e.target.value as the element is now.
Held(e) == IF IsCheckbox(e) THEN BoolAtom(dom[e].checked) ELSE dom[e].value

\* The models of the test page on a document wired at load. An edit
\* delivers an input event; the change event that ends the edit carries what
\* the element holds by then.
InitEdit ==
    /\ InitHeap({NoEntry})
    /\ InitWiring("complete")
    /\ resolved = NoCall

NextEdit ==
    \/ \E p \in PagePrograms : Construct(p[1], p[2], p[3])
    \/ \E id \in 1..Len(models), v \in {"", "Alice"} :
          models[id].cls = "User" /\ Write(id, "name", v)
    \/ \E e \in TwoWayElements : \E v \in HeldValues(e) : UserInput(e, v, "input")
    \/ \E e \in TwoWayElements : UserInput(e, Held(e), "change")

SpecEdit == InitEdit /\ [][NextEdit]_vars

\* What the server may answer to overlapping calls: the values a new model
\* declares, or other values for one or both fields.
OverlapResponses ==
    { << <<"name", "">>, <<"email", "">> >>,
      << <<"name", "Alice">>, <<"email", "a@x.com">> >>,
      << <<"name", "Bob">> >> }

\* Values the application and the user give while calls are in flight.
OverlapVals(k) ==
    CASE k = "name"  -> {"", "Alice"}
      [] k = "email" -> {"", "a@x.com"}
      [] OTHER       -> {}

\* A User model with several calls in flight while the application and the
\* user write; the responses arrive in any order.
InitOverlap ==
    /\ InitHeap({NoEntry})
    /\ InitWiring("complete")
    /\ resolved = NoCall

NextOverlap ==
    \/ Construct(UserName, "User", TRUE)
    \/ \E id \in 1..Len(models), k \in {"name", "email"} :
          \E v \in OverlapVals(k) : Write(id, k, v)
    \/ \E v \in OverlapVals("name") : UserInput("nameInput", v, "input")
    \/ \E id \in 1..Len(models), method \in {"GET", "POST"} : Call(id, method)
    \/ \E i \in 1..Len(inflight), data \in OverlapResponses : Respond(i, data)

SpecOverlap == InitOverlap /\ [][NextOverlap]_vars

\* ================================================================= claims
\* What the claims call a public field: a name that is neither private nor
\* "endpoint".
PublicKey(k) == ~StartsWithUU(k) /\ k # "endpoint"

\* The model the last operation acted on.
LastModel == models[last.id]

\* The last operation was an assignment m.f = v of a non-function value to a
\* public field of a model constructed with persistence enabled.
PublicAssignment ==
    /\ last.op = "set"
    /\ PublicKey(last.key)
    /\ ~IsFunction(last.val)
    /\ LastModel.sessionPersist

\* C1: once m.f = v has returned (f public, v not a function, persistence
\* enabled), reading m.f yields v and the snapshot under "model:" + name has
\* f: v, also when v equals the value f held before.
C1_WriteIsReadAndPersisted ==
    PublicAssignment =>
        /\ Get(LastModel, last.key) = last.val
        /\ sessionStorage[LastModel.name].kind = "json"
        /\ sessionStorage[LastModel.name].data[last.key] = last.val

\* C2: constructing a User over the stored snapshot {name: "Alice",
\* email: "a@x.com"} yields m.name = "Alice" and m.email = "a@x.com" right
\* after construction.
C2_RestoreYieldsStoredValues ==
    (last.op = "construct" /\ last.stored = AliceSnapshot /\ LastModel.cls = "User") =>
        /\ Get(LastModel, "name") = "Alice"
        /\ Get(LastModel, "email") = "a@x.com"

\* The log consists of whole assign-save-render triples and of steps that
\* neither save nor render.
RECURSIVE WholeTriples(_)
WholeTriples(log) ==
    IF log = <<>> THEN TRUE
    ELSE IF Head(log) \in {"assign", "save", "render"}
    THEN /\ Len(log) >= 3
         /\ SubSeq(log, 1, 3) = <<"assign", "save", "render">>
         /\ WholeTriples(SubSeq(log, 4, Len(log)))
    ELSE WholeTriples(Tail(log))

\* The step is a write of a non-function value to a public field that
\* differs from the field's current value, by an assignment or by a handler.
AcceptedWriteStep ==
    /\ last'.op \in {"set", "input", "change"}
    /\ last'.id # 0
    /\ PublicKey(last'.key)
    /\ ~IsFunction(last'.val)
    /\ Get(models[last'.id], last'.key) # last'.val

\* C3: a write to a public field whose value differs is applied in memory,
\* then saved exactly once, then rendered exactly once, all within the write;
\* nothing is deferred, so the saves and the render passes keep count with
\* the accepted writes (the render passes also with the constructions).
C3_PipelineOrder ==
    /\ [](/\ nSaves = nAccepted
          /\ nRenders = nAccepted + Len(models)
          /\ (last.op # "construct" => WholeTriples(last.log)))
    /\ [][AcceptedWriteStep =>
            /\ last'.log = <<"assign", "save", "render">>
            /\ nAccepted' = nAccepted + 1
            /\ nSaves' = nSaves + 1
            /\ nRenders' = nRenders + 1
            /\ models'[last'.id].fields[last'.key] = last'.val
            /\ sessionStorage'[models[last'.id].name].kind = "json"
            /\ sessionStorage'[models[last'.id].name].data[last'.key] = last'.val
            /\ dom' = __updateDOM(models'[last'.id],
                                  IF last'.op = "set" THEN dom ELSE Edited(last'.elem, last'.val))
         ]_vars

C3_TwoConsecutiveWrites ==
    /\ last.op = "set"
    /\ last.log = <<"assign", "save", "render">>
    /\ nAccepted = 2
    /\ nSaves = 2

\* C4: assigning to a public field the value it already holds saves nothing
\* and renders nothing: the store (an absent entry included) and every element
\* are what they were.
C4_SameValueIsIdle ==
    [][(/\ last'.op = "set"
        /\ PublicKey(last'.key)
        /\ ~IsFunction(last'.val)
        /\ Get(models[last'.id], last'.key) = last'.val)
       => /\ sessionStorage' = sessionStorage
          /\ dom' = dom
          /\ nSaves' = nSaves
          /\ nRenders' = nRenders
          /\ models' = models]_vars

C4_SameValueOnFreshModel ==
    /\ last.op = "set"
    /\ PublicKey(last.key)
    /\ last.before = last.val
    /\ sessionStorage[LastModel.name].kind = "none"

\* The snapshot the claims expect: every own member with a public name that
\* is not a method, with its current value, and nothing else.
PublicFieldsOf(m) ==
    Json([k \in Keys |->
            IF PublicKey(k) /\ m.fields[k] # Absent /\ ~IsFunction(m.fields[k])
            THEN m.fields[k] ELSE Absent])

\* C5: after an accepted write on a model with persistence enabled, the entry
\* under "model:" + name is exactly the model's public own fields with their
\* current values: none missing, none stale, none extra.
C5_SnapshotIsPublicFields ==
    (/\ last.op \in {"set", "input", "change", "response"}
     /\ last.id # 0
     /\ \E i \in 1..Len(last.log) : last.log[i] = "save"
     /\ LastModel.sessionPersist)
    => sessionStorage[LastModel.name] = PublicFieldsOf(LastModel)

\* user.name = "Alice" on a fresh User gives {"name":"Alice","email":""}.
C5_ExampleSnapshot ==
    /\ last.op = "set"
    /\ last.key = "name"
    /\ last.val = "Alice"
    /\ LastModel.cls = "User"
    /\ LastModel.sessionPersist
    /\ sessionStorage[LastModel.name] =
         Json([k \in Keys |-> CASE k = "name" -> "Alice" [] k = "email" -> "" [] OTHER -> Absent])

\* A serialized object has no private key, no "endpoint" and no function.
CleanJson(entry) ==
    \A k \in Keys :
        /\ (StartsWithUU(k) \/ k = "endpoint") => entry.data[k] = Absent
        /\ ~IsFunction(entry.data[k])

\* C6: no snapshot in the store and no payload of post() ever contains a
\* "__" key, the key "endpoint" or a function-valued member.
C6_NoPrivateInSnapshotOrPayload ==
    /\ \A n \in Names : CleanJson(sessionStorage[n])
    /\ \A i \in 1..Len(inflight) : CleanJson(inflight[i].body)

\* A POST is in flight for a model that holds a private member, an endpoint
\* and a function under a public name, and whose snapshot was saved.
C6_PostOfModelWithPrivateMembers ==
    \E i \in 1..Len(inflight) :
        /\ inflight[i].method = "POST"
        /\ models[inflight[i].id].fields["__secret"] # Absent
        /\ models[inflight[i].id].fields["endpoint"] # Absent
        /\ models[inflight[i].id].fields["name"] = Fn
        /\ nSaves > 0
        /\ sessionStorage[models[inflight[i].id].name].kind = "json"

\* A model as it would be had construction restored nothing.
Unrestored(m) == [m EXCEPT !.fields = NoFields]

\* C7: a model constructed with the persistence flag false is constructed
\* without reading the store (its first render shows nothing restored), its
\* writes leave the store alone, and its accepted writes still render.
C7_DisabledPersistenceSkipsStore ==
    (last.id # 0 /\ ~LastModel.sessionPersist) =>
        /\ last.op = "construct" => dom = __updateDOM(Unrestored(LastModel), dom)
        /\ last.op = "set" => sessionStorage[LastModel.name] = last.stored
        /\ (last.op = "set" /\ PublicKey(last.key) /\ ~IsFunction(last.val)
              /\ last.before # last.val)
           => \E i \in 1..Len(last.log) : last.log[i] = "render"

\* C8: right after a model with persistence enabled is constructed (no entry
\* being stored before), the store holds a snapshot with every declared
\* public field at its declared default.
C8_ConstructionPersistsDefaults ==
    (last.op = "construct" /\ LastModel.sessionPersist /\ last.stored.kind = "none") =>
        /\ sessionStorage[LastModel.name].kind = "json"
        /\ \A k \in DOMAIN ClassFields(LastModel.cls) :
              PublicKey(k) => sessionStorage[LastModel.name].data[k] = ClassFields(LastModel.cls)[k]

\* The step is an assignment that takes the bypass branch.
BypassStep ==
    /\ last'.op = "set"
    /\ (StartsWithUU(last'.key) \/ last'.key = "endpoint" \/ IsFunction(last'.val))

\* Nothing but the heap changes.
OnlyModelsChange ==
    /\ sessionStorage' = sessionStorage
    /\ dom' = dom
    /\ nSaves' = nSaves
    /\ nRenders' = nRenders
    /\ nAccepted' = nAccepted
    /\ modelRegistry' = modelRegistry

\* C9 as stated: an assignment to a "__" key, to "endpoint", or of a function
\* updates the in-memory member and nothing else.
C9_BypassUpdatesMemberOnly ==
    [][BypassStep =>
          /\ Get(models'[last'.id], last'.key) = last'.val
          /\ OnlyModelsChange]_vars

\* C9 amended: such an assignment updates the in-memory member and nothing
\* else, except that an assignment to the read-only members __instanceName
\* and __handlers throws and changes nothing at all.
C9_BypassWrites ==
    [][BypassStep =>
          /\ OnlyModelsChange
          /\ IF last'.key \in ReadOnlyKeys
             THEN models' = models /\ last'.thrown
             ELSE /\ models' = [models EXCEPT ![last'.id].fields[last'.key] = last'.val]
                  /\ ~last'.thrown]_vars

C9_BypassOnSavedModel ==
    /\ last.op = "set"
    /\ last.key = "endpoint"
    /\ Get(LastModel, "endpoint") = "/api/v2"
    /\ sessionStorage[LastModel.name].kind = "json"
    /\ nSaves > 0

\* C10: an input or change event on a wired two-way element whose model is
\* registered sets the model's field to the element's value (to the boolean
\* checked state for a checkbox) through the set trap: a changed value of a
\* public field is saved and rendered.
C10_EventWritesModel ==
    (last.op \in {"input", "change"} /\ last.id # 0) =>
        /\ last.id = modelRegistry[<<Head(DataModel(last.elem))>>]
        /\ Get(LastModel, last.key) = last.val
        /\ (PublicKey(last.key) /\ last.before # last.val) =>
              /\ last.log = <<"assign", "save", "render">>
              /\ sessionStorage[LastModel.name].kind = "json"
              /\ sessionStorage[LastModel.name].data[last.key] = last.val
        /\ (PublicKey(last.key) /\ last.before = last.val) => last.log = <<"nochange">>

C10_CheckboxChangeReachesModel ==
    /\ last.op = "change"
    /\ last.elem = "notifCheckbox"
    /\ last.id # 0
    /\ last.before = False
    /\ Get(LastModel, "notifications") = True
    /\ sessionStorage[SettingsName].data["notifications"] = True

\* Element e shows the value v: as its checked state, its value property or
\* its text content, by the kind of the element.
Shows(e, v) ==
    IF IsCheckbox(e) THEN dom[e].checked = Truthy(v)
    ELSE IF TagName(e) \in {"INPUT", "SELECT"} THEN dom[e].value = ToStr(v)
    ELSE dom[e].text = ToStr(v)

\* The path a binding attribute names behind the instance name it starts with.
PathOf(attr, name) == SubSeq(attr, Len(name) + 1, Len(attr))

\* The last operation was a write to a model whose final assignment was
\* accepted (saved and rendered).
AfterAcceptedWrite ==
    /\ last.op \in {"set", "input", "change", "response"}
    /\ last.id # 0
    /\ Len(last.log) >= 3
    /\ SubSeq(last.log, Len(last.log) - 2, Len(last.log)) = <<"assign", "save", "render">>

\* C11: after an accepted write to model m has returned, every element whose
\* data-bind or data-model attribute starts with m's instance name and "."
\* shows the value the resolver gives for the path of that attribute.
C11_RenderSync ==
    AfterAcceptedWrite =>
        \A e \in Elements : \A attr \in {DataBind(e), DataModel(e)} :
            HasPrefix(attr, LastModel.name) =>
                Shows(e, __getPropertyValue(LastModel, PathOf(attr, LastModel.name)))

\* The members fullName reads.
FullNameReads == {"name", "email"}

\* The method an element is one-way bound to.
MethodOf(e) == DataBind(e)[Len(DataBind(e))]

\* The elements one-way bound to a method of model m.
MethodElements(m) ==
    {e \in Elements : /\ HasPrefix(DataBind(e), m.name)
                      /\ Len(DataBind(e)) = Len(m.name) + 1
                      /\ DataBind(e)[Len(DataBind(e))] \in ClassMethods(m.cls)}

\* C12 as stated: the element bound to user.fullName showing the method's
\* return value, after any member that fullName reads is given another value
\* through the facade the element shows the method's new return value.
C12_DerivedValueFollowsAnyMember ==
    [][(/\ last'.op = "set"
        /\ last'.key \in FullNameReads
        /\ models[last'.id].cls = "User"
        /\ Get(models'[last'.id], last'.key) # Get(models[last'.id], last'.key)
        /\ \A e \in MethodElements(models[last'.id]) :
              dom[e].text = ToStr(CallMember(models[last'.id], MethodOf(e))))
       => \A e \in MethodElements(models[last'.id]) :
             dom'[e].text = ToStr(CallMember(models'[last'.id], MethodOf(e)))]_vars

\* C12 amended: after an accepted write (another, non-function value for a
\* public field) the element bound to a method of the model shows the value
\* the method returns then.
C12_DerivedValueFollowsAcceptedWrites ==
    AfterAcceptedWrite =>
        \A e \in MethodElements(LastModel) :
            dom[e].text = ToStr(CallMember(LastModel, MethodOf(e)))

C12_FullNameShownAfterTwoWrites ==
    /\ last.op = "set"
    /\ last.key = "email"
    /\ last.log = <<"assign", "save", "render">>
    /\ FullName(LastModel) = "Alice (a@x.com)"
    /\ dom["fullNameDisplay"].text = "Alice (a@x.com)"

\* Element e is bound to the model named n, one-way or two-way.
BoundTo(e, n) == HasPrefix(DataBind(e), n) \/ HasPrefix(DataModel(e), n)

\* The step is a write, an event or a response applied to a model named A
\* while a model named B is constructed.
AppliedTo(A, B) ==
    /\ last'.op \in {"set", "input", "change", "response"}
    /\ last'.id # 0
    /\ models[last'.id].name = A
    /\ \E j \in 1..Len(models) : models[j].name = B

\* The step leaves the models named B, the store entry of B and the elements
\* bound to B and not to A alone.
LeavesAlone(A, B) ==
    /\ \A j \in 1..Len(models) : models[j].name = B => models'[j] = models[j]
    /\ sessionStorage'[B] = sessionStorage[B]
    /\ \A e \in Elements : (BoundTo(e, B) /\ ~BoundTo(e, A)) => e \notin last'.touched

\* C13 as stated: for any two distinct instance names A and B, what is applied
\* to A leaves B's fields and B's store entry unchanged and renders no element
\* bound to B.
C13_ModelIsolation ==
    [][\A A \in Names : \A B \in Names \ {A} :
          AppliedTo(A, B) =>
             /\ \A j \in 1..Len(models) : models[j].name = B => models'[j] = models[j]
             /\ sessionStorage'[B] = sessionStorage[B]
             /\ \A e \in Elements : BoundTo(e, B) => e \notin last'.touched]_vars

\* Neither name followed by "." is the beginning of the other followed by ".".
Apart(A, B) == A # B /\ ~HasPrefix(A, B) /\ ~HasPrefix(B, A)

\* C13 amended: for two instance names of which neither, followed by ".",
\* begins the other, what is applied to A leaves B's fields and B's store
\* entry unchanged and renders no element whose attributes name B and not A.
C13_IsolationOfNamesApart ==
    [][\A A \in Names : \A B \in Names :
          (Apart(A, B) /\ AppliedTo(A, B)) => LeavesAlone(A, B)]_vars

C13_WriteBesideAnotherModel ==
    /\ last.op = "set"
    /\ LastModel.name = SettingsName
    /\ last.log = <<"assign", "save", "render">>
    /\ last.touched = {"notifCheckbox"}
    /\ \E j \in 1..Len(models) : models[j].name = UserName /\ models[j].fields["name"] = "Alice"
    /\ dom["display"].text = "Alice"
    /\ sessionStorage[UserName].kind = "json"

\* C14: constructing a model over a store entry that does not parse returns
\* without throwing, leaves every declared field at its declared default and
\* nothing else on the model, registers the model, and only reports the
\* failure: the entry stays as it was.
C14_CorruptSnapshotIsReported ==
    (last.op = "construct" /\ last.stored.kind = "corrupt") =>
        /\ ~last.thrown
        /\ last.id = Len(models)
        /\ modelRegistry[LastModel.name] = last.id
        /\ LastModel.fields = DefineFields(NoFields, LastModel.cls)
        /\ \E i \in 1..Len(last.log) : last.log[i] = "error"
        /\ sessionStorage[LastModel.name] = last.stored

C14_UserOverCorruptSnapshot ==
    /\ last.op = "construct"
    /\ last.stored = Corrupt
    /\ LastModel.cls = "User"
    /\ Get(LastModel, "name") = ""
    /\ Get(LastModel, "endpoint") = "/api/user"
    /\ modelRegistry[UserName] = last.id

\* The model constructed last under the name n, 0 when there is none.
MostRecent(n) ==
    IF \E j \in 1..Len(models) : models[j].name = n
    THEN CHOOSE j \in 1..Len(models) :
            /\ models[j].name = n
            /\ \A i \in (j + 1)..Len(models) : models[i].name # n
    ELSE 0

\* C15: the registry maps each name to the model constructed last under it;
\* an entry is never removed and changes only when a model is constructed
\* under its name.
C15_RegistryKeepsTheLatest ==
    /\ [](\A n \in Names : modelRegistry[n] = MostRecent(n))
    /\ [][\A n \in Names :
            /\ modelRegistry[n] # 0 => modelRegistry'[n] # 0
            /\ modelRegistry'[n] # modelRegistry[n] =>
                  /\ last'.op = "construct"
                  /\ modelRegistry'[n] = Len(models')
                  /\ models'[Len(models')].name = n]_vars

C15_SecondModelOfTheSameName ==
    /\ Len(models) = 2
    /\ models[1].name = models[2].name
    /\ last.op = "construct"
    /\ modelRegistry[models[1].name] = 2

\* How many times the handlers of one event reached the set trap.
RECURSIVE WriteAttempts(_)
WriteAttempts(log) ==
    IF log = <<>> THEN 0
    ELSE (IF Head(log) \in {"assign", "nochange", "bypass", "TypeError"} THEN 1 ELSE 0)
         + WriteAttempts(Tail(log))

\* C16: once a scan has run, however many follow, every two-way element
\* carries exactly one handler per event type, and one event makes at most
\* one write attempt.
C16_OneObserverPerElement ==
    /\ \A e \in Elements : listeners[e] <= 1
    /\ nScans >= 1 => \A e \in TwoWayElements : listeners[e] = 1
    /\ last.op \in {"input", "change"} => WriteAttempts(last.log) <= 1

C16_EventAfterSeveralScans ==
    /\ nScans >= 3
    /\ last.op = "input"
    /\ last.id # 0
    /\ listeners[last.elem] = 1
    /\ WriteAttempts(last.log) = 1

\* C17: a scan wires every two-way element of the document, whether or not a
\* model is registered under its name; an event on a wired element whose name
\* has a registered model is applied to that model.
C17_WiredBeforeRegistration ==
    /\ [][nScans' # nScans => \A e \in TwoWayElements : listeners'[e] >= 1 /\ e \in boundElements']_vars
    /\ [][(/\ steps' # steps
            /\ last'.op \in {"input", "change"}
            /\ listeners[last'.elem] > 0
            /\ modelRegistry[<<Head(DataModel(last'.elem))>>] # 0)
           => /\ last'.id = modelRegistry[<<Head(DataModel(last'.elem))>>]
              /\ Get(models'[last'.id], last'.key) = last'.val]_vars

\* The document was scanned when the library ran, before any model could be
\* constructed; later a model was, and an event reached it.
C17_EventOnElementWiredFirst ==
    /\ last.op = "input"
    /\ readyState = "complete"
    /\ last.id # 0
    /\ last.log = <<"assign", "save", "render">>
    /\ Get(LastModel, last.key) = last.val

\* C18 as stated: once the retry timer is cleared no scan is performed.
C18_NoScanAfterTheBudget ==
    [][initInterval = "cleared" => nScans' = nScans]_vars

\* C18 amended: the retry timer runs at most maxAttempts scans, is cleared
\* with the last of them, and no tick follows; the only other scan is the
\* initial one, at load or with the load event, whenever that comes.
C18_RetryLoopStops ==
    /\ [](/\ initAttempt <= maxAttempts
          /\ initInterval = "cleared" <=> initAttempt = maxAttempts
          /\ nScans <= maxAttempts + 1
          /\ nScans = initAttempt + (IF readyState = "loading" THEN 0 ELSE 1))
    /\ [][initInterval = "cleared" =>
            /\ initAttempt' = initAttempt
            /\ initInterval' = "cleared"]_vars

C18_BudgetSpentWithTwoModels ==
    /\ initInterval = "cleared"
    /\ initAttempt = maxAttempts
    /\ Len(models) = 2
    /\ boundElements = TwoWayElements

\* C19: an event on a wired element whose name has no registered model
\* changes no model, no store entry and no element (the element keeps the
\* user's edit), does not throw, and logs one warning.
C19_EventWithoutModel ==
    [][(/\ steps' # steps
        /\ last'.op \in {"input", "change"}
        /\ listeners[last'.elem] > 0
        /\ Lookup(<<Head(DataModel(last'.elem))>>) = 0)
       => /\ ~last'.thrown
          /\ last'.log = <<"warn">>
          /\ models' = models
          /\ modelRegistry' = modelRegistry
          /\ sessionStorage' = sessionStorage
          /\ dom' = Edited(last'.elem, last'.val)]_vars

C19_WarningBesideAnotherModel ==
    /\ last.op = "change"
    /\ last.elem = "notifCheckbox"
    /\ last.log = <<"warn">>
    /\ modelRegistry[SettingsName] = 0
    /\ modelRegistry[UserName] # 0
    /\ sessionStorage[UserName].kind = "json"

\* A step of the resolver as the claim words it: a member of nothing is
\* nothing.
Reached(m, path, i) ==
    LET RECURSIVE After(_)
        After(j) == IF j = 0 THEN This
                    ELSE IF After(j - 1) \in {Null, Undefined} THEN Undefined
                    ELSE Step(m, After(j - 1), path[j])
    IN After(i)

\* C20: the resolver does not throw; it returns "" when a value on the chain,
\* the last included, is null or undefined, and the last value unchanged
\* otherwise (0 and false included); a function member is called and its
\* result used.
C20_ResolverNeverFails ==
    resolved.result # Pending =>
        LET m == resolved.m
            path == resolved.path
            extra == Get(m, "extra")
        IN /\ resolved.result # TypeError
           /\ resolved.result =
                 IF \E i \in 1..Len(path) : Reached(m, path, i) \in {Null, Undefined}
                 THEN "" ELSE Reached(m, path, Len(path))
           /\ (path = <<"extra">> /\ extra \in {Zero, False, Metadata}) => resolved.result = extra
           /\ (path = <<"extra">> /\ extra \in {Null, Undefined}) => resolved.result = ""
           /\ (path = <<"extra">> /\ extra = Fn) => resolved.result = "computed"
           /\ path = <<"fullName">> => resolved.result = FullName(m)
           /\ (path = <<"extra", "version">> /\ extra = Metadata) => resolved.result = Zero
           /\ (path = <<"extra", "active">> /\ extra = Metadata) => resolved.result = False
           /\ (path = <<"extra", "label">> /\ extra = Metadata) => resolved.result = "computed"
           /\ (path = <<"extra", "owner", "version">> /\ extra = Metadata) => resolved.result = ""
           /\ (Len(path) > 1 /\ Head(path) = "missing") => resolved.result = ""

C20_NullOnTheChain ==
    /\ resolved.path = <<"extra", "owner", "version">>
    /\ resolved.m.fields["extra"] = Metadata
    /\ resolved.result = ""

\* The first segment of the path the element's binding expression gives.
BoundMember(e) ==
    LET binding == IF DataBind(e) # <<>> THEN DataBind(e) ELSE DataModel(e)
    IN Tail(binding)[1]

\* The element's binding expression names a private member.
NamesPrivate(e) == StartsWithUU(BoundMember(e))

\* C21: for an element whose binding expression names a "__" member of a
\* model, no render pass of that model puts the member's value into the
\* element, and no input or change event on the element changes the member.
C21_PrivateMembersStayUnbound ==
    \A e \in Elements :
        (NamesPrivate(e) /\ last.id # 0) =>
            /\ (e \in last.touched /\ LastModel.fields[BoundMember(e)] # Absent)
                  => ~Shows(e, ToStr(LastModel.fields[BoundMember(e)]))
            /\ (last.op \in {"input", "change"} /\ last.elem = e)
                  => Get(LastModel, BoundMember(e)) = last.before

\* this.hasOwnProperty(key), as the claims put it: the model declares k.
Declares(m, k) == m.fields[k] # Absent

\* The trail a response leaves when each of its keys is handled on its own,
\* in key order, on the model m as it was when the response arrived: nothing
\* for a key that is private or not declared, a bypass for "endpoint",
\* nothing but a note for a value the field already holds, and otherwise an
\* assignment, then a save, then a render pass.
RECURSIVE TrailOf(_, _)
TrailOf(m, data) ==
    IF data = <<>> THEN <<>>
    ELSE LET k == Head(data)[1]
             v == Head(data)[2]
         IN (IF StartsWithUU(k) \/ ~Declares(m, k) THEN <<>>
             ELSE IF k = "endpoint" THEN <<"bypass">>
             ELSE IF m.fields[k] = v THEN <<"nochange">>
             ELSE <<"assign", "save", "render">>) \o TrailOf(m, Tail(data))

\* The keys of the response whose value is assigned, in key order.
RECURSIVE AssignedOf(_, _)
AssignedOf(m, data) ==
    IF data = <<>> THEN <<>>
    ELSE LET k == Head(data)[1]
         IN (IF ~StartsWithUU(k) /\ Declares(m, k) /\ (k = "endpoint" \/ m.fields[k] # Head(data)[2])
             THEN <<k>> ELSE <<>>) \o AssignedOf(m, Tail(data))

Count(seq, x) == Cardinality({i \in 1..Len(seq) : seq[i] = x})

\* The step is the arrival of the 2xx response of a call of `method`.
ResponseStep(method) ==
    /\ steps' # steps
    /\ last'.op = "response"
    /\ last'.key = method

\* The response is applied key by key: the trail, the keys assigned and their
\* order, the counters, the fields and the snapshot are those of one write
\* through the interceptor per declared public key.
AppliesDeclaredKeys ==
    LET id == last'.id
        m == models[id]
        data == last'.data
    IN /\ last'.log = TrailOf(m, data)
       /\ last'.keys = AssignedOf(m, data)
       /\ nSaves' = nSaves + Count(last'.log, "save")
       /\ nRenders' = nRenders + Count(last'.log, "render")
       /\ \A j \in 1..Len(data) :
             LET k == data[j][1]
             IN /\ ~Declares(m, k) =>
                      /\ ~Declares(models'[id], k)
                      /\ sessionStorage'[m.name].data[k] = Absent
                /\ (Declares(m, k) /\ PublicKey(k)) =>
                      models'[id].fields[k] = data[j][2]
       /\ \A k \in Keys : (\A j \in 1..Len(data) : data[j][1] # k) =>
             models'[id].fields[k] = m.fields[k]
       /\ Count(last'.log, "save") > 0 =>
             sessionStorage'[m.name] = PublicFieldsOf(models'[id])

\* C22: when the response of get() arrives, a key the model does not declare
\* is ignored (it becomes no field and enters no snapshot), each declared
\* public key is written through the interceptor on its own, in key order,
\* and each field that changes gets its own save followed by its own render
\* pass.
C22_GetAppliesDeclaredKeys == [][ResponseStep("GET") => AppliesDeclaredKeys]_vars

\* A response of get() with keys the model does not declare and two fields
\* that change has been applied.
C22_ResponseWithUnknownKeys ==
    /\ last.op = "response"
    /\ last.key = "GET"
    /\ \E j \in 1..Len(last.data) : last.data[j][1] = "extra"
    /\ ~Declares(LastModel, "extra")
    /\ Count(last.log, "save") = 2
    /\ SubSeq(last.keys, Len(last.keys) - 1, Len(last.keys)) = <<"name", "email">>
    /\ LastModel.fields["name"] = "Bob"

\* C23: when the request of get() or post() fails in transport or is answered
\* with a non-2xx status, the call is rejected to its caller, the request is
\* not issued again (the requests in flight are the others, as they were), and
\* no model, store entry or element changes.
C23_RemoteFailureIsRejected ==
    [][(steps' # steps /\ last'.op = "failure") =>
          /\ last'.outcome = "rejected"
          /\ last'.thrown
          /\ \E i \in 1..Len(inflight) :
                /\ inflight[i].id = last'.id
                /\ inflight[i].method = last'.key
                /\ inflight' = Without(inflight, i)
          /\ models' = models
          /\ sessionStorage' = sessionStorage
          /\ dom' = dom
          /\ nSaves' = nSaves
          /\ nRenders' = nRenders
    ]_vars

\* The POST of a model whose snapshot is in the store has failed, and no
\* request is left in flight.
C23_FailedPostOfSavedModel ==
    /\ last.op = "failure"
    /\ last.key = "POST"
    /\ last.outcome = "rejected"
    /\ sessionStorage[LastModel.name].kind = "json"
    /\ nSaves > 0
    /\ inflight = <<>>

C25_PostSendsSnapshot ==
    /\ [][(steps' # steps /\ last'.op = "POST" /\ last'.outcome = "pending") =>
             LET m == models[last'.id]
             IN /\ Len(inflight') = Len(inflight) + 1
                /\ inflight'[Len(inflight')].body = PublicFieldsOf(m)
                /\ inflight'[Len(inflight')].body = __persist(m, sessionStorage)[m.name]
                /\ inflight'[Len(inflight')].url = m.fields["endpoint"]
          ]_vars
    /\ [][ResponseStep("POST") => AppliesDeclaredKeys]_vars

\* A POST is in flight whose body holds name: "Alice", the model's name when
\* post() was called, while the model has been written to since.
C25_BodyOfAnEarlierMoment ==
    \E i \in 1..Len(inflight) :
        /\ inflight[i].method = "POST"
        /\ inflight[i].body.data["name"] = "Alice"
        /\ models[inflight[i].id].fields["name"] = ""
        /\ last.op = "set"
        /\ last.key = "name"

\* C26: when the application of a response throws in the write of one key (in
\* its save or in its render pass), the call is rejected and nothing runs
\* after the failure: the keys assigned before it hold the response's values
\* in memory and in the store, the keys behind it hold what they held.
C26_ResponseIsNotTransactional ==
    [][(steps' # steps /\ last'.op = "response" /\ last'.thrown) =>
          LET id == last'.id
              m == models[id]
              data == last'.data
              ks == last'.keys
          IN /\ last'.outcome = "rejected"
             /\ Len(ks) > 0
             /\ last'.log[Len(last'.log)] = "throw"
             /\ \E j \in 1..Len(data) :
                   /\ data[j][1] = ks[Len(ks)]
                   /\ models'[id].fields[data[j][1]] = data[j][2]
                   /\ \A i \in 1..(j - 1) :
                         (\E n \in 1..(Len(ks) - 1) : ks[n] = data[i][1]) =>
                            /\ models'[id].fields[data[i][1]] = data[i][2]
                            /\ PublicKey(data[i][1]) =>
                                  sessionStorage'[m.name].data[data[i][1]] = data[i][2]
                   /\ \A i \in (j + 1)..Len(data) :
                         models'[id].fields[data[i][1]] = m.fields[data[i][1]]
    ]_vars

\* The response {email: "a@x.com", name: "%"} was applied to a fresh User: the
\* write of name threw in its render pass, email is in memory and in the store.
C26_FailureAtTheSecondKey ==
    /\ last.op = "response"
    /\ last.thrown
    /\ last.outcome = "rejected"
    /\ last.keys = <<"email", "name">>
    /\ LastModel.fields["email"] = "a@x.com"
    /\ sessionStorage[LastModel.name].data["email"] = "a@x.com"
    /\ LastModel.fields["name"] = "%"

\* The model m with v assigned to its member k.
Assigned(m, k, v) == [m EXCEPT !.fields[k] = v]

\* C27: when the render pass of an accepted write m.f = v throws, the
\* exception reaches the caller within the assignment, and the field and the
\* snapshot in the store both hold v: the save of that write was done before
\* the render pass started.
C27_RenderFailureKeepsStoreCurrent ==
    [][(/\ steps' # steps
        /\ AcceptedWriteStep
        /\ ~PersistThrows(Assigned(models[last'.id], last'.key, last'.val))
        /\ RenderThrows(Assigned(models[last'.id], last'.key, last'.val)))
       => /\ last'.thrown
          /\ models'[last'.id].fields[last'.key] = last'.val
          /\ sessionStorage'[models[last'.id].name].kind = "json"
          /\ sessionStorage'[models[last'.id].name].data[last'.key] = last'.val
          /\ sessionStorage'[models[last'.id].name] = PublicFieldsOf(models'[last'.id])
          /\ nSaves' = nSaves + 1
    ]_vars

\* user.name = "%" threw in its render pass: the span before the one bound to
\* decoded shows "%", the one behind it was not reached.
C27_RenderThrewAfterTheSave ==
    /\ last.op = "set"
    /\ last.val = "%"
    /\ last.thrown
    /\ last.log = <<"assign", "save", "render", "throw">>
    /\ sessionStorage[LastModel.name].data["name"] = "%"
    /\ dom["display"].text = "%"
    /\ "fullNameDisplay" \notin last.touched

\* C28: when the save of an accepted write m.f = v throws, the exception
\* reaches the caller, the field holds v, the store is what it was and no
\* render pass runs; assigning v to f again is a no-change write, which
\* neither saves nor renders; and the store changes only in a step that
\* changes a model.
C28_SaveFailureIsNotRolledBack ==
    /\ [][(/\ steps' # steps
           /\ AcceptedWriteStep
           /\ PersistThrows(Assigned(models[last'.id], last'.key, last'.val)))
          => /\ last'.thrown
             /\ models'[last'.id].fields[last'.key] = last'.val
             /\ sessionStorage' = sessionStorage
             /\ nSaves' = nSaves
             /\ nRenders' = nRenders
             /\ dom' = IF last'.op = "set" THEN dom ELSE Edited(last'.elem, last'.val)
       ]_vars
    /\ [][(/\ steps' # steps
           /\ last'.op = "set"
           /\ PublicKey(last'.key)
           /\ Get(models[last'.id], last'.key) = last'.val
           /\ sessionStorage[models[last'.id].name] # PublicFieldsOf(models[last'.id]))
          => /\ last'.log = <<"nochange">>
             /\ ~last'.thrown
             /\ sessionStorage' = sessionStorage
             /\ nSaves' = nSaves
             /\ nRenders' = nRenders
             /\ dom' = dom
       ]_vars
    /\ [][models' = models => sessionStorage' = sessionStorage]_vars

\* user.name = 10n was assigned a second time: the first assignment threw in
\* its save, the second is a no-change write and the store holds no name 10n.
C28_SameValueAfterFailedSave ==
    /\ last.op = "set"
    /\ last.val = BigInt
    /\ last.before = BigInt
    /\ last.log = <<"nochange">>
    /\ LastModel.fields["name"] = BigInt
    /\ sessionStorage[LastModel.name].data["name"] # BigInt
    /\ nSaves = 0

\* C29: applying the response of get() or post() leaves the model's endpoint
\* and every "__" member as they were, whatever keys the response has.
C29_ResponseKeepsConfiguration ==
    [][(steps' # steps /\ last'.op = "response") =>
          \A k \in Keys :
              (k = "endpoint" \/ StartsWithUU(k)) =>
                  models'[last'.id].fields[k] = models[last'.id].fields[k]
    ]_vars

\* C30: once an input event carrying v on a wired two-way element that is not
\* a checkbox, bound to a registered model, has been handled, the element
\* shows v and the resolver gives v for the element's path, whatever the
\* number of segments of the path.
C30_TwoWayRoundTrip ==
    (last.op = "input" /\ last.id # 0 /\ ~IsCheckbox(last.elem)) =>
        /\ dom[last.elem].value = last.val
        /\ __getPropertyValue(LastModel, Tail(DataModel(last.elem))) = last.val

\* C31: an input or change event on a wired element is written to the model
\* constructed last under the element's instance name, also when the element
\* was wired before that model replaced an earlier one; every other model,
\* the replaced one included, is left as it is.
C31_EventsReachTheNewestModel ==
    [][(/\ steps' # steps
        /\ last'.op \in {"input", "change"}
        /\ listeners[last'.elem] > 0)
       => LET newest == MostRecent(<<Head(DataModel(last'.elem))>>)
          IN /\ last'.id = newest
             /\ newest # 0 => Get(models'[newest], last'.key) = last'.val
             /\ \A j \in 1..Len(models) : j # newest => models'[j] = models[j]
    ]_vars

\* Two models were constructed under "user" on a page whose elements were
\* wired when the library loaded; the text typed since is in the second and
\* not in the first.
C31_EventAfterReplacement ==
    /\ readyState = "complete"
    /\ Len(models) = 2
    /\ models[1].name = UserName
    /\ models[2].name = UserName
    /\ last.op = "input"
    /\ last.elem = "nameInput"
    /\ last.val = "Alice"
    /\ last.id = 2
    /\ models[2].fields["name"] = "Alice"
    /\ models[1].fields["name"] = ""

\* C32: one assignment, by the application or by a handler of an input or
\* change event, runs the set trap once and makes at most one save and one
\* render pass, and the render pass writes no model: only the assigned key of
\* the one model changes. A change event that follows an input event on the
\* same wired element with the same value saves nothing, renders nothing and
\* leaves every model as it is.
C32_OneEditOnePropagation ==
    [][/\ (/\ steps' # steps
           /\ last'.op \in {"set", "input", "change"})
          => /\ WriteAttempts(last'.log) <= 1
             /\ nSaves' - nSaves <= 1
             /\ nRenders' - nRenders <= 1
             /\ \A j \in 1..Len(models) :
                   /\ j # last'.id => models'[j] = models[j]
                   /\ \A k \in Keys \ {last'.key} :
                         models'[j].fields[k] = models[j].fields[k]
       /\ (/\ steps' # steps
           /\ last.op = "input"
           /\ last.log # <<>>
           /\ last'.op = "change"
           /\ last'.elem = last.elem
           /\ last'.val = last.val)
          => /\ nSaves' = nSaves
             /\ nRenders' = nRenders
             /\ models' = models
             /\ Count(last'.log, "save") = 0
             /\ Count(last'.log, "render") = 0
    ]_vars

\* The box was clicked: its input event turned notifications on with one
\* save and one render pass, and the change event of the same click found
\* the value in place.
C32_ChangeAfterInput ==
    /\ last.op = "change"
    /\ last.elem = "notifCheckbox"
    /\ last.val = True
    /\ last.id # 0
    /\ last.before = True
    /\ last.log = <<"nochange">>
    /\ nSaves = 1
    /\ nRenders = 2
    /\ steps = 3
    /\ Get(models[last.id], "notifications") = True

\* The step is the arrival of the last outstanding response, and the step
\* before it was a write, an input event or another response: no call was
\* issued since, so the call now answered was in flight during that step.
LastResponseAfterAnotherWriter ==
    /\ steps' # steps
    /\ last'.op = "response"
    /\ ~last'.thrown
    /\ inflight' = <<>>
    /\ last.op \in {"set", "input", "response"}

\* The value the response gives for key k (that of the last entry under k).
ResponseValue(data, k) ==
    data[CHOOSE j \in 1..Len(data) :
            /\ data[j][1] = k
            /\ \A i \in (j + 1)..Len(data) : data[i][1] # k][2]

\* After the step each declared public key of the response holds the
\* response's value and every other field is as the earlier writers left it.
LastWriterWins ==
    LET id == last'.id
        data == last'.data
    IN \A k \in Keys :
          IF \E j \in 1..Len(data) : data[j][1] = k
          THEN (~StartsWithUU(k) /\ Declares(models[id], k)) =>
                   models'[id].fields[k] = ResponseValue(data, k)
          ELSE models'[id].fields[k] = models[id].fields[k]

\* C33: a response is applied in one step, and when the last outstanding
\* response has arrived after a local write, an input event or another
\* response made while its call was in flight, each declared field holds the
\* value of the writer applied last and the snapshot in the store equals the
\* public fields of the model.
C33_WritersSettle ==
    [][LastResponseAfterAnotherWriter
       => /\ LastWriterWins
          /\ sessionStorage'[models'[last'.id].name] = PublicFieldsOf(models'[last'.id])
    ]_vars

\* The part of C33 that does not rest on the snapshot.
C33_LastWriterWins == [][LastResponseAfterAnotherWriter => LastWriterWins]_vars


\* With the snapshot equal to the public fields when the response arrives,
\* it is so afterwards: the snapshot part of C33 fails only where no save
\* has been made since construction.
C33_SnapshotStaysCurrent ==
    [][(/\ LastResponseAfterAnotherWriter
        /\ sessionStorage[models[last'.id].name] = PublicFieldsOf(models[last'.id]))
       => sessionStorage'[models'[last'.id].name] = PublicFieldsOf(models'[last'.id])
    ]_vars

====
